---- MODULE Spec2Model ----
(***************************************************************************)
(* Model of the gg-pdf Backend (the drawing adapter): its Save/Restore     *)
(* State Stack, its current transform and the layer stack of the gxpdf     *)
(* surface it drives.  One action per Backend method; the surface is the   *)
(* sequence of layers pushed by PushTransform / PushClipPath / PushOpacity *)
(* and removed by Pop.  The Document (multi-page) is modelled with the     *)
(* page it handed out last as that Backend, and the translation functions  *)
(* (matrices, brushes, enums) as operators applied to bounded inputs.      *)
(***************************************************************************)
EXTENDS Integers, Sequences, FiniteSets, TLC

\* ------------------------------------------------------------------ bounds
\* Largest State Stack depth explored (Save is not offered beyond it).
MaxSaves == 2
\* Largest surface layer-stack depth explored (Save and SetClip stop there).
MaxLayers == 4
\* Matrix entries handed to matrixToTransform range over -MaxCoord..MaxCoord.
MaxCoord == 1
\* Largest number of colour stops of a gradient brush.
MaxStops == 2
\* Largest number of NewPage calls made on a Document.
MaxPages == 2

\* ---------------------------------------------------------------- sequences
Front(s) == SubSeq(s, 1, Len(s) - 1)
Last(s) == s[Len(s)]

\* ------------------------------------------------ matrices and transforms
\* recording.Matrix, row-major [A B C; D E F].
Matrix(a, b, c, d, e, f) == [A |-> a, B |-> b, C |-> c, D |-> d, E |-> e, F |-> f]

\* recording.Identity(): the value Begin gives currentTransform.
recording_Identity == Matrix(1, 0, 0, 0, 1, 0)

\* The matrices handed to SetTransform: the identity, and a shear with a
\* translation, [1 2 3; 0 1 4], which a transposed conversion would change.
Matrices == {recording_Identity, Matrix(1, 2, 3, 0, 1, 4)}

\* creator.Transform{A, B, C, D, E, F}, standing for [A C E; B D F; 0 0 1].
Transform(a, b, c, d, e, f) == [A |-> a, B |-> b, C |-> c, D |-> d, E |-> e, F |-> f]

\* creator.Identity(), the layer Save pushes.
creator_Identity == Transform(1, 0, 0, 1, 0, 0)

\* creator.Translate(tx, ty) and creator.Scale(sx, sy), as used by Begin.
creator_Translate(tx, ty) == Transform(1, 0, 0, 1, tx, ty)
creator_Scale(sx, sy) == Transform(sx, 0, 0, sy, 0, 0)

\* The point a transform sends (x, y) to.
Apply(t, x, y) == <<t.A * x + t.C * y + t.E, t.B * x + t.D * y + t.F>>

\* t.Then(u) as Begin uses it: the transform the surface gets when t is
\* written first and u second, so a point goes through u and then through t
\* (translate by the height, flip Y: the top-left to bottom-left conversion).
Then(t, u) ==
  Transform(t.A * u.A + t.C * u.B,
            t.B * u.A + t.D * u.B,
            t.A * u.C + t.C * u.D,
            t.B * u.C + t.D * u.D,
            t.A * u.E + t.C * u.F + t.E,
            t.B * u.E + t.D * u.F + t.F)

\* The Y-flip Begin installs for a canvas of height h.
flipTransform(h) == Then(creator_Translate(0, h), creator_Scale(1, -1))

\* A conversion that copies the six fields in declaration order.
matrixToTransformInOrder(m) ==
  [A |-> m.A, B |-> m.B,
   C |-> m.C, D |-> m.D,
   E |-> m.E, F |-> m.F]

\* Backend.matrixToTransform.
matrixToTransform(m) ==
  [A |-> m.A, B |-> m.D,
   C |-> m.B, D |-> m.E,
   E |-> m.C, F |-> m.F]

\* Backend.translateFillRule.
translateFillRule(rule) ==
  IF rule = "FillRuleEvenOdd" THEN "FillRuleEvenOdd" ELSE "FillRuleNonZero"

\* A line-cap translation without the default branch.
translateLineCapNoDefault(lineCap) ==
  CASE lineCap = "LineCapRound"  -> "LineCapRound"
    [] lineCap = "LineCapSquare" -> "LineCapSquare"
    [] OTHER                     -> lineCap

\* Backend.translateLineCap.
translateLineCap(lineCap) ==
  CASE lineCap = "LineCapRound"  -> "LineCapRound"
    [] lineCap = "LineCapSquare" -> "LineCapSquare"
    [] OTHER                     -> "LineCapButt"

\* Backend.translateLineJoin.
translateLineJoin(join) ==
  CASE join = "LineJoinRound" -> "LineJoinRound"
    [] join = "LineJoinBevel" -> "LineJoinBevel"
    [] OTHER                  -> "LineJoinMiter"

\* ------------------------------------------------------- colours and fills
\* A float64 that is a ratio of two integers, kept in lowest terms.
RECURSIVE Gcd(_, _)
Gcd(a, b) == IF b = 0 THEN a ELSE Gcd(b, a % b)

Ratio(n, d) == <<n \div Gcd(n, d), d \div Gcd(n, d)>>

\* float64(c) / 255.0 for a colour channel c in 0..255.
Over255(c) == Ratio(c, 255)

\* creator.Color{R, G, B} and creator.Black.
Color(r, g, b) == [R |-> r, G |-> g, B |-> b]
creator_Black == Color(Ratio(0, 1), Ratio(0, 1), Ratio(0, 1))

\* The creator.Color built from the channels of a recorded colour.
ColorOf(c) == Color(Over255(c.R), Over255(c.G), Over255(c.B))

\* creator.Fill: what creator.NewFill returns for a colour (paint "solid")
\* or a gradient (paint "linear" / "radial", with the stops added to it),
\* and fill.WithOpacity.
Fill(paint, color, stops) ==
  [paint |-> paint, color |-> color, stops |-> stops, opacity |-> Ratio(1, 1)]

NewFill(color) == Fill("solid", color, <<>>)

WithOpacity(fill, opacity) == [fill EXCEPT !.opacity = opacity]

\* The stops a gradient gets from grad.AddColorStop(stop.Offset, color), in
\* the order of br.Stops.
RECURSIVE ColorStops(_)
ColorStops(stops) ==
  IF stops = <<>> THEN <<>>
  ELSE Append(ColorStops(Front(stops)),
              [Offset |-> Last(stops).Offset, Color |-> ColorOf(Last(stops).Color)])

\* Backend.translateLinearGradient and Backend.translateRadialGradient.
translateLinearGradient(br) == Fill("linear", creator_Black, ColorStops(br.Stops))
translateRadialGradient(br) == Fill("radial", creator_Black, ColorStops(br.Stops))

\* A brush translation whose sweep fallback takes the last stop.
translateBrushToFillLastStop(brush) ==
  CASE brush.kind = "SolidBrush" ->
         IF brush.Color.A < 255
           THEN WithOpacity(NewFill(ColorOf(brush.Color)), Over255(brush.Color.A))
           ELSE NewFill(ColorOf(brush.Color))
    [] brush.kind = "LinearGradientBrush" -> translateLinearGradient(brush)
    [] brush.kind = "RadialGradientBrush" -> translateRadialGradient(brush)
    [] brush.kind = "SweepGradientBrush" ->
         IF Len(brush.Stops) > 0
           THEN NewFill(ColorOf(brush.Stops[Len(brush.Stops)].Color))
           ELSE NewFill(creator_Black)
    [] OTHER -> NewFill(creator_Black)

\* Backend.translateBrushToFill.
translateBrushToFill(brush) ==
  CASE brush.kind = "SolidBrush" ->
         IF brush.Color.A < 255
           THEN WithOpacity(NewFill(ColorOf(brush.Color)), Over255(brush.Color.A))
           ELSE NewFill(ColorOf(brush.Color))
    [] brush.kind = "LinearGradientBrush" -> translateLinearGradient(brush)
    [] brush.kind = "RadialGradientBrush" -> translateRadialGradient(brush)
    [] brush.kind = "SweepGradientBrush" ->
         IF Len(brush.Stops) > 0
           THEN NewFill(ColorOf(brush.Stops[1].Color))
           ELSE NewFill(creator_Black)
    [] OTHER -> NewFill(creator_Black)

\* ------------------------------------------------------------ input domains
\* Canvas heights given to Begin.
Heights == {3, 5}
\* recording.FillRule values given to SetClip.
FillRules == {"FillRuleNonZero", "FillRuleEvenOdd"}

\* The matrices matrixToTransform is tried on: every matrix with entries in
\* -MaxCoord..MaxCoord.
Coords == (0 - MaxCoord)..MaxCoord
MatrixDomain == [A : Coords, B : Coords, C : Coords, D : Coords, E : Coords, F : Coords]

\* The values of the three enumerations, each with one value that is none
\* of its named constants.
FillRuleValues == FillRules \cup {"FillRule(2)"}
LineCapValues == {"LineCapButt", "LineCapRound", "LineCapSquare", "LineCap(3)"}
LineJoinValues == {"LineJoinMiter", "LineJoinRound", "LineJoinBevel", "LineJoin(3)"}

\* Recorded colours (channels 0..255), colour stops and brushes.
RGBA(r, g, b, a) == [R |-> r, G |-> g, B |-> b, A |-> a]
Colours == {RGBA(255, 0, 0, 255), RGBA(0, 255, 0, 255), RGBA(0, 128, 255, 128)}
StopValues == [Offset : {0, 1}, Color : Colours]
StopLists == UNION {[1..n -> StopValues] : n \in 0..MaxStops}
GradientKinds == {"LinearGradientBrush", "RadialGradientBrush", "SweepGradientBrush"}
Brushes ==
  {[kind |-> "SolidBrush", Color |-> c, Stops |-> <<>>] : c \in Colours}
    \cup {[kind |-> k, Color |-> RGBA(0, 0, 0, 0), Stops |-> st] :
             k \in GradientKinds, st \in StopLists}
    \cup {[kind |-> "nil", Color |-> RGBA(0, 0, 0, 0), Stops |-> <<>>]}

\* A call of one of the translation functions: its name and argument, and
\* out, <<>> until it has returned and <<result>> afterwards.
Call(fn, arg) == [fn |-> fn, arg |-> arg, out |-> <<>>]
Calls ==
  {Call("matrixToTransform", m) : m \in MatrixDomain}
    \cup {Call("translateBrushToFill", br) : br \in Brushes}
    \cup {Call("translateFillRule", v) : v \in FillRuleValues}
    \cup {Call("translateLineCap", v) : v \in LineCapValues}
    \cup {Call("translateLineJoin", v) : v \in LineJoinValues}
NoCall == Call("-", "-")

\* ------------------------------------------------------------------- state
VARIABLES
  phase,             \* "new" (before Begin), "active", "ended" (after End), "crashed"
  height,            \* Backend.height
  stateStack,        \* Backend.stateStack: sequence of backendState
  currentTransform,  \* Backend.currentTransform
  surface,           \* the layers on Backend.surface, bottom first
  err,               \* what the last call returned: "nil" or "error"
  frames,            \* bookkeeping: one record per Save not yet matched by a Restore
  restored,          \* bookkeeping: <<r>> when the last call was a Restore, <<>> otherwise
  creator,           \* Backend.creator: "nil", "own" (made by Begin) or "doc" (the Document's)
  doc,               \* the Document that handed the Backend out, if any
  call               \* the translation function being called, if any

vars == <<phase, height, stateStack, currentTransform, surface, err, frames, restored,
          creator, doc, call>>

\* ------------------------------------------------------------ surface layers
\* A layer of the surface: a transform, a clip path with its fill rule, or
\* an opacity group.
Layer(kind, t, rule) == [kind |-> kind, t |-> t, rule |-> rule]

TransformLayer(t) == Layer("transform", t, "-")
ClipLayer(rule) == Layer("clip", creator_Identity, rule)
OpacityLayer == Layer("opacity", creator_Identity, "-")

\* Surface.PushTransform(t).
PushTransform(s, t) == Append(s, TransformLayer(t))

\* Surface.Pop(): removes the top layer.  With no layer on the surface the
\* engine either does nothing or panics; the adapter never checks.
Pop(s) ==
  IF s = <<>>
    THEN {[panic |-> FALSE, s |-> s], [panic |-> TRUE, s |-> s]}
    ELSE {[panic |-> FALSE, s |-> Front(s)]}

\* The transform the surface applies to the next drawing call: the layers'
\* transforms composed bottom to top.
RECURSIVE Visible(_)
Visible(s) ==
  IF s = <<>> THEN creator_Identity
  ELSE IF Last(s).kind = "transform" THEN Then(Visible(Front(s)), Last(s).t)
  ELSE Visible(Front(s))

\* The clip layers on the surface, with their positions.
Clips(s) == {i \in 1..Len(s) : s[i].kind = "clip"}

\* ---------------------------------------------------------------- frames
\* The record kept for a Save: the current transform, the State Stack depth
\* and the surface it was called with, and scope, what has been called since
\* inside it:
\*   "pure"  nothing but Save and Restore (nested pairs), or nothing at all
\*   "clip"  SetClip calls, after nothing but completed nested pairs
\*   "mixed" anything else (the surface is then no longer kept)
Frame(xform, sdepth, surf) ==
  [xform |-> xform, sdepth |-> sdepth, surf |-> surf, scope |-> "pure"]

Widen(scope, op) ==
  CASE op = "Restore"      -> scope
    [] op = "Save"         -> IF scope = "pure" THEN "pure" ELSE "mixed"
    [] op = "SetClip"      -> IF scope = "mixed" THEN "mixed" ELSE "clip"
    [] OTHER               -> "mixed"

Noted(f, op) ==
  IF Widen(f.scope, op) = "mixed"
    THEN [f EXCEPT !.scope = "mixed", !.surf = <<>>]
    ELSE [f EXCEPT !.scope = Widen(f.scope, op)]

\* The frames after a call of op inside every open scope.
RECURSIVE Note(_, _)
Note(fs, op) ==
  IF fs = <<>> THEN <<>>
  ELSE Append(Note(Front(fs), op), Noted(Last(fs), op))

\* What a call of Restore records: hit, whether a Save was open for it to
\* match; frame, that Save's frame (when hit); moved, whether the current
\* transform the call found differs from the one that Save was called with.
Restored(fs, cur) ==
  <<[hit |-> fs # <<>>,
     frame |-> IF fs # <<>> THEN Last(fs) ELSE Frame(recording_Identity, 0, <<>>),
     moved |-> fs # <<>> /\ cur # Last(fs).xform]>>

\* ---------------------------------------------------------------- Document
\* The Document fields: pages and finished.  pages holds one record (the
\* surface and the creator of the pageBackend) for every page but the one
\* handed out last; that one is the Backend of the variables above, and
\* listed tells whether d.pages holds it.  The other fields are
\* bookkeeping: made, a Document exists; calls, the NewPage calls so far;
\* created, those in which the engine created the page; popped, the pages
\* Finish has popped, in the order it did; meta, the metadata fields handed
\* to the creator; output, where the document was last serialized to.
NoDocument ==
  [made |-> FALSE, pages |-> <<>>, listed |-> FALSE, finished |-> FALSE,
   calls |-> 0, created |-> 0, popped |-> <<>>,
   meta |-> [Title |-> "", Author |-> "", Subject |-> "", Keywords |-> ""],
   output |-> "none"]

\* NewDocument().
NewDocument == [NoDocument EXCEPT !.made = TRUE]

\* Document.PageCount(): len(d.pages).
PageCountOf(d) == Len(d.pages) + (IF d.listed THEN 1 ELSE 0)
PageCount == PageCountOf(doc)

\* ------------------------------------------------------------------ actions
\* NewBackend(): no creator, page or surface yet, an empty State Stack.
NewBackend ==
  /\ phase = "new"
  /\ height = 0
  /\ stateStack = <<>>
  /\ currentTransform = Matrix(0, 0, 0, 0, 0, 0)
  /\ surface = <<>>
  /\ creator = "nil"
  /\ err = "nil"
  /\ frames = <<>>
  /\ restored = <<>>

Init ==
  /\ NewBackend
  /\ doc = NoDocument
  /\ call = NoCall

\* Backend.Begin(width, height); ok: the engine creates the page.
Begin(h, ok) ==
  /\ phase # "crashed"
  /\ height' = h
  /\ creator' = "own"
  /\ UNCHANGED <<doc, call>>
  /\ restored' = <<>>
  /\ IF ok
       THEN /\ currentTransform' = recording_Identity
            /\ stateStack' = <<>>
            /\ surface' = PushTransform(<<>>, flipTransform(h))
            /\ phase' = "active"
            /\ err' = "nil"
            /\ frames' = <<>>
       ELSE /\ err' = "error"
            /\ frames' = Note(frames, "Begin")
            /\ UNCHANGED <<currentTransform, stateStack, surface, phase>>

\* Backend.End().
End ==
  /\ phase = "active"
  /\ UNCHANGED <<creator, doc, call>>
  /\ restored' = <<>>
  /\ frames' = Note(frames, "End")
  /\ err' = "nil"
  /\ \E r \in Pop(surface) :
       /\ surface' = r.s
       /\ phase' = IF r.panic THEN "crashed" ELSE "ended"
  /\ UNCHANGED <<height, stateStack, currentTransform>>

\* Save without the identity layer pushed on the surface.
SaveNoLayer ==
  /\ phase = "active"
  /\ UNCHANGED <<creator, doc, call>>
  /\ Len(stateStack) < MaxSaves
  /\ Len(surface) < MaxLayers
  /\ restored' = <<>>
  /\ frames' = Append(Note(frames, "Save"),
                      Frame(currentTransform, Len(stateStack), surface))
  /\ stateStack' = Append(stateStack, [transform |-> currentTransform])
  /\ err' = "nil"
  /\ UNCHANGED <<phase, height, currentTransform, surface>>

\* Backend.Save().
Save ==
  /\ phase = "active"
  /\ UNCHANGED <<creator, doc, call>>
  /\ Len(stateStack) < MaxSaves
  /\ Len(surface) < MaxLayers
  /\ restored' = <<>>
  /\ frames' = Append(Note(frames, "Save"),
                      Frame(currentTransform, Len(stateStack), surface))
  /\ stateStack' = Append(stateStack, [transform |-> currentTransform])
  /\ surface' = PushTransform(surface, creator_Identity)
  /\ err' = "nil"
  /\ UNCHANGED <<phase, height, currentTransform>>

\* Restore that pops the State Stack without restoring the transform.
RestoreKeepsTransform ==
  /\ phase = "active"
  /\ UNCHANGED <<creator, doc, call>>
  /\ restored' = Restored(frames, currentTransform)
  /\ frames' = IF frames = <<>> THEN <<>> ELSE Front(frames)
  /\ err' = "nil"
  /\ IF Len(stateStack) = 0
       THEN UNCHANGED <<stateStack, surface, phase>>
       ELSE /\ stateStack' = Front(stateStack)
            /\ \E r \in Pop(surface) :
                 /\ surface' = r.s
                 /\ phase' = IF r.panic THEN "crashed" ELSE phase
  /\ UNCHANGED <<height, currentTransform>>

\* Restore that pops the surface before looking at the State Stack.
RestorePopsFirst ==
  /\ phase = "active"
  /\ UNCHANGED <<creator, doc, call>>
  /\ restored' = Restored(frames, currentTransform)
  /\ frames' = IF frames = <<>> THEN <<>> ELSE Front(frames)
  /\ err' = "nil"
  /\ \E r \in Pop(surface) :
       /\ surface' = r.s
       /\ phase' = IF r.panic THEN "crashed" ELSE phase
  /\ IF Len(stateStack) = 0
       THEN UNCHANGED <<stateStack, currentTransform>>
       ELSE /\ stateStack' = Front(stateStack)
            /\ currentTransform' = Last(stateStack).transform
  /\ UNCHANGED <<height>>

\* Backend.Restore().
Restore ==
  /\ phase = "active"
  /\ UNCHANGED <<creator, doc, call>>
  /\ restored' = Restored(frames, currentTransform)
  /\ frames' = IF frames = <<>> THEN <<>> ELSE Front(frames)
  /\ err' = "nil"
  /\ IF Len(stateStack) = 0
       THEN UNCHANGED <<stateStack, currentTransform, surface, phase>>
       ELSE /\ stateStack' = Front(stateStack)
            /\ currentTransform' = Last(stateStack).transform
            /\ \E r \in Pop(surface) :
                 /\ surface' = r.s
                 /\ phase' = IF r.panic THEN "crashed" ELSE phase
  /\ UNCHANGED <<height>>

\* Backend.SetTransform(m).
SetTransform(m) ==
  /\ phase = "active"
  /\ UNCHANGED <<creator, doc, call>>
  /\ restored' = <<>>
  /\ frames' = Note(frames, "SetTransform")
  /\ err' = "nil"
  /\ currentTransform' = m
  /\ \E r \in Pop(surface) :
       IF r.panic
         THEN surface' = r.s /\ phase' = "crashed"
         ELSE surface' = PushTransform(r.s, matrixToTransform(m))
              /\ phase' = phase
  /\ UNCHANGED <<height, stateStack>>

\* Backend.SetClip(path, rule); ok: the engine accepts PushClipPath.
SetClip(rule, ok) ==
  /\ phase = "active"
  /\ UNCHANGED <<creator, doc, call>>
  /\ ok => Len(surface) < MaxLayers
  /\ restored' = <<>>
  /\ frames' = Note(frames, "SetClip")
  /\ err' = "nil"
  /\ surface' = IF ok THEN Append(surface, ClipLayer(translateFillRule(rule)))
                      ELSE surface
  /\ UNCHANGED <<phase, height, stateStack, currentTransform>>

\* Backend.ClearClip().
ClearClip ==
  /\ phase = "active"
  /\ UNCHANGED <<creator, doc, call>>
  /\ restored' = <<>>
  /\ frames' = Note(frames, "ClearClip")
  /\ err' = "nil"
  /\ UNCHANGED <<phase, height, stateStack, currentTransform, surface>>

\* What FillPath, StrokePath, FillRect and DrawText share: one drawing call
\* handed to the engine, whose error, if any, is discarded.
Draw(op) ==
  /\ phase = "active"
  /\ UNCHANGED <<creator, doc, call>>
  /\ op \in {"FillPath", "StrokePath", "FillRect", "DrawText"}
  /\ restored' = <<>>
  /\ frames' = Note(frames, op)
  /\ err' = "nil"
  /\ UNCHANGED <<phase, height, stateStack, currentTransform, surface>>

\* Backend.FillPath(path, brush, rule).
FillPath == Draw("FillPath")

\* Backend.StrokePath(path, brush, stroke).
StrokePath == Draw("StrokePath")

\* Backend.FillRect(rect, brush).
FillRect == Draw("FillRect")

\* Backend.DrawText(s, x, y, face, brush).
DrawText == Draw("DrawText")

\* Backend.DrawImage(img, src, dst, opts).  loaded: png.Encode and
\* LoadImageFromReader both succeed; translucent: opts.Alpha < 1;
\* pushOk: the engine accepts PushOpacity.  What page.DrawImage returns is
\* discarded and changes nothing here.
DrawImage(loaded, translucent, pushOk) ==
  /\ phase = "active"
  /\ UNCHANGED <<creator, doc, call>>
  /\ restored' = <<>>
  /\ frames' = Note(frames, "DrawImage")
  /\ err' = "nil"
  /\ IF ~loaded
       THEN UNCHANGED <<surface, phase>>
       ELSE IF translucent
         THEN \E r \in Pop(IF pushOk THEN Append(surface, OpacityLayer) ELSE surface) :
                /\ surface' = r.s
                /\ phase' = IF r.panic THEN "crashed" ELSE phase
         ELSE UNCHANGED <<surface, phase>>
  /\ UNCHANGED <<height, stateStack, currentTransform>>

Next ==
  \/ \E h \in Heights, ok \in BOOLEAN : Begin(h, ok)
  \/ End
  \/ Save
  \/ Restore
  \/ \E m \in Matrices : SetTransform(m)
  \/ \E rule \in FillRules, ok \in BOOLEAN : SetClip(rule, ok)
  \/ ClearClip
  \/ FillPath
  \/ StrokePath
  \/ FillRect
  \/ DrawText
  \/ \E loaded, translucent, pushOk \in BOOLEAN : DrawImage(loaded, translucent, pushOk)

Spec == Init /\ [][Next]_vars

\* The adapter driven with Begin, End, Save, Restore and SetTransform only.
NextXform ==
  \/ \E h \in Heights, ok \in BOOLEAN : Begin(h, ok)
  \/ End
  \/ Save
  \/ Restore
  \/ \E m \in Matrices : SetTransform(m)

SpecXform == Init /\ [][NextXform]_vars

\* The same, with SetClip as well.
NextClip ==
  \/ \E h \in Heights, ok \in BOOLEAN : Begin(h, ok)
  \/ End
  \/ Save
  \/ Restore
  \/ \E m \in Matrices : SetTransform(m)
  \/ \E rule \in FillRules, ok \in BOOLEAN : SetClip(rule, ok)

SpecClip == Init /\ [][NextClip]_vars

\* ------------------------------------------------------- Document actions
\* A pageBackend no longer the last handed out, as d.pages holds it.
Page(surf, cr) == [surface |-> surf, creator |-> cr]

\* NewPage that records the pageBackend in d.pages even when the engine
\* created no page for it.
NewPageAlwaysListed(h, ok) ==
  /\ doc.made
  /\ phase # "crashed"
  /\ doc.calls < MaxPages
  /\ height' = h
  /\ stateStack' = <<>>
  /\ creator' = "doc"
  /\ err' = "nil"
  /\ frames' = <<>>
  /\ restored' = <<>>
  /\ call' = call
  /\ LET pages == IF doc.listed THEN Append(doc.pages, Page(surface, creator))
                                 ELSE doc.pages
     IN IF ok
          THEN /\ phase' = "active"
               /\ currentTransform' = recording_Identity
               /\ surface' = PushTransform(<<>>, flipTransform(h))
               /\ doc' = [doc EXCEPT !.pages = pages, !.listed = TRUE,
                                      !.calls = @ + 1, !.created = @ + 1]
          ELSE /\ phase' = "new"
               /\ currentTransform' = Matrix(0, 0, 0, 0, 0, 0)
               /\ surface' = <<>>
               /\ doc' = [doc EXCEPT !.pages = pages, !.listed = TRUE,
                                      !.calls = @ + 1]

\* Document.NewPage(width, height); ok: the engine creates the page.
NewPage(h, ok) ==
  /\ doc.made
  /\ phase # "crashed"
  /\ doc.calls < MaxPages
  /\ height' = h
  /\ stateStack' = <<>>
  /\ creator' = "doc"
  /\ err' = "nil"
  /\ frames' = <<>>
  /\ restored' = <<>>
  /\ call' = call
  /\ LET pages == IF doc.listed THEN Append(doc.pages, Page(surface, creator))
                                 ELSE doc.pages
     IN IF ok
          THEN /\ phase' = "active"
               /\ currentTransform' = recording_Identity
               /\ surface' = PushTransform(<<>>, flipTransform(h))
               /\ doc' = [doc EXCEPT !.pages = pages, !.listed = TRUE,
                                      !.calls = @ + 1, !.created = @ + 1]
          ELSE /\ phase' = "new"
               /\ currentTransform' = Matrix(0, 0, 0, 0, 0, 0)
               /\ surface' = <<>>
               /\ doc' = [doc EXCEPT !.pages = pages, !.listed = FALSE,
                                      !.calls = @ + 1]

\* The surfaces of d.pages, in page order.
RECURSIVE SurfacesOf(_)
SurfacesOf(pages) ==
  IF pages = <<>> THEN <<>>
  ELSE Append(SurfacesOf(Front(pages)), Last(pages).surface)

Surfaces ==
  IF doc.listed THEN Append(SurfacesOf(doc.pages), surface)
                ELSE SurfacesOf(doc.pages)

\* pages with their surfaces replaced by the first Len(pages) of ss.
RECURSIVE Repaged(_, _)
Repaged(pages, ss) ==
  IF pages = <<>> THEN <<>>
  ELSE Append(Repaged(Front(pages), ss),
              Page(ss[Len(pages)], Last(pages).creator))

\* <<1, ..., n>>.
RECURSIVE Upto(_)
Upto(n) == IF n = 0 THEN <<>> ELSE Append(Upto(n - 1), n)

\* Finish's loop: one Pop on each surface in turn.  A panic ends it.
RECURSIVE PopEach(_)
PopEach(ss) ==
  IF ss = <<>> THEN {[panic |-> FALSE, ss |-> <<>>]}
  ELSE UNION {IF r.panic
                THEN {[panic |-> TRUE, ss |-> Append(r.ss, Last(ss))]}
                ELSE {[panic |-> q.panic, ss |-> Append(r.ss, q.s)] : q \in Pop(Last(ss))}
              : r \in PopEach(Front(ss))}

\* What a call of d.Finish() can leave: the Document, the surface of the
\* page handed out last, and whether the engine panicked.
Finished ==
  IF doc.finished
    THEN {[panic |-> FALSE, doc |-> doc, surface |-> surface]}
    ELSE {[panic |-> r.panic,
           surface |-> IF doc.listed THEN Last(r.ss) ELSE surface,
           doc |-> [doc EXCEPT
                      !.pages = Repaged(doc.pages, r.ss),
                      !.finished = ~r.panic,
                      !.popped = IF r.panic THEN @
                                 ELSE @ \o Upto(PageCount)]]
          : r \in PopEach(Surfaces)}

\* Document.Finish().
Finish ==
  /\ doc.made
  /\ phase # "crashed"
  /\ \E r \in Finished :
       /\ doc' = r.doc
       /\ surface' = r.surface
       /\ phase' = IF r.panic THEN "crashed" ELSE phase
  /\ err' = "nil"
  /\ restored' = <<>>
  /\ frames' = Note(frames, "Finish")
  /\ UNCHANGED <<height, stateStack, currentTransform, creator, call>>

\* Finish, then the creator's own serialization to target; ok: that
\* serialization succeeds.
Serialize(target, ok) ==
  /\ doc.made
  /\ phase # "crashed"
  /\ \E r \in Finished :
       /\ surface' = r.surface
       /\ IF r.panic
            THEN doc' = r.doc /\ phase' = "crashed" /\ err' = err
            ELSE /\ doc' = [r.doc EXCEPT !.output = target]
                 /\ phase' = phase
                 /\ err' = IF ok THEN "nil" ELSE "error"
  /\ restored' = <<>>
  /\ frames' = Note(frames, "Finish")
  /\ UNCHANGED <<height, stateStack, currentTransform, creator, call>>

\* Document.WriteTo(w).
WriteTo(ok) == Serialize("writer", ok)

\* Document.SaveToFile(path).
SaveToFile(ok) == Serialize("file", ok)

\* The metadata setters: the value goes straight to the creator.
SetMeta(field, v) ==
  /\ doc.made
  /\ phase # "crashed"
  /\ doc' = [doc EXCEPT !.meta[field] = v]
  /\ err' = "nil"
  /\ UNCHANGED <<phase, height, stateStack, currentTransform, surface, creator,
                 frames, restored, call>>

\* Document.SetTitle, SetAuthor, SetSubject and SetKeywords.
SetTitle(v) == SetMeta("Title", v)
SetAuthor(v) == SetMeta("Author", v)
SetSubject(v) == SetMeta("Subject", v)
SetKeywords(v) == SetMeta("Keywords", v)

\* Metadata strings handed to the setters.
Strings == {"gg"}

InitDoc ==
  /\ NewBackend
  /\ doc = NewDocument
  /\ call = NoCall

\* A Document driven through its own methods.
NextDoc ==
  \/ \E h \in Heights, ok \in BOOLEAN : NewPage(h, ok)
  \/ Finish
  \/ \E ok \in BOOLEAN : WriteTo(ok)
  \/ \E ok \in BOOLEAN : SaveToFile(ok)
  \/ \E v \in Strings : SetTitle(v)
  \/ \E v \in Strings : SetAuthor(v)
  \/ \E v \in Strings : SetSubject(v)
  \/ \E v \in Strings : SetKeywords(v)

SpecDoc == InitDoc /\ [][NextDoc]_vars

\* A Document and the page handed out last, driven through the Backend
\* interface as a played-back recording drives it.
NextPages ==
  \/ \E h \in Heights, ok \in BOOLEAN : NewPage(h, ok)
  \/ Finish
  \/ \E ok \in BOOLEAN : WriteTo(ok)
  \/ \E ok \in BOOLEAN : SaveToFile(ok)
  \/ \E h \in Heights, ok \in BOOLEAN : Begin(h, ok)
  \/ End
  \/ Save
  \/ Restore
  \/ \E m \in Matrices : SetTransform(m)

SpecPages == InitDoc /\ [][NextPages]_vars

\* ------------------------------------------------- translation functions
\* The function named by c applied to its argument.
Result(c) ==
  CASE c.fn = "matrixToTransform"    -> matrixToTransform(c.arg)
    [] c.fn = "translateBrushToFill" -> translateBrushToFill(c.arg)
    [] c.fn = "translateFillRule"    -> translateFillRule(c.arg)
    [] c.fn = "translateLineCap"     -> translateLineCap(c.arg)
    [] c.fn = "translateLineJoin"    -> translateLineJoin(c.arg)

\* One call of fn on a Backend fresh from NewBackend, as the translation
\* tests make it.
Translate(fn) ==
  /\ call.fn = fn
  /\ call.out = <<>>
  /\ call' = [call EXCEPT !.out = <<Result(call)>>]
  /\ UNCHANGED <<phase, height, stateStack, currentTransform, surface, err,
                 frames, restored, creator, doc>>

TestMatrixTranslation == Translate("matrixToTransform")
TestSweepGradientFallback == Translate("translateBrushToFill")
TestFillRuleTranslation == Translate("translateFillRule")
TestLineCapTranslation == Translate("translateLineCap")
TestLineJoinTranslation == Translate("translateLineJoin")

InitTranslate ==
  /\ NewBackend
  /\ doc = NoDocument
  /\ call \in Calls

NextTranslate ==
  \/ TestMatrixTranslation
  \/ TestSweepGradientFallback
  \/ TestFillRuleTranslation
  \/ TestLineCapTranslation
  \/ TestLineJoinTranslation

SpecTranslate == InitTranslate /\ [][NextTranslate]_vars

\* ================================================================== claims

\* The record of the last call, when it was a Restore.
WasRestore == restored # <<>>
RestoreHit == restored # <<>> /\ restored[1].hit

\* C1: after a Restore that matches a Save, the current transform is the
\* one that was current when that Save was called, whatever was called in
\* between (any number of SetTransform calls, nested Save/Restore pairs).
C1_RestoreRevertsTransform ==
  RestoreHit => currentTransform = restored[1].frame.xform

\* C1 witness: a Restore has just closed a nested Save inside which the
\* transform had been changed, and brought back a non-identity transform.
C1_Witness ==
  /\ RestoreHit
  /\ restored[1].moved
  /\ restored[1].frame.sdepth = 1
  /\ currentTransform = restored[1].frame.xform
  /\ currentTransform # recording_Identity

\* C2: a Restore that matches a Save with nothing but Save and Restore
\* called in between leaves the State Stack depth and the surface depth
\* what they were just before that Save.
C2_PushPopSymmetry ==
  (RestoreHit /\ restored[1].frame.scope = "pure") =>
    /\ Len(stateStack) = restored[1].frame.sdepth
    /\ Len(surface) = Len(restored[1].frame.surf)

\* C2 witness: such a Restore has closed a Save made one level deep, on a
\* surface that held three layers.
C2_Witness ==
  /\ RestoreHit
  /\ restored[1].frame.scope = "pure"
  /\ restored[1].frame.sdepth = 1
  /\ Len(restored[1].frame.surf) = 3
  /\ Len(stateStack) = 1
  /\ Len(surface) = 3

\* C3: a Restore called with an empty State Stack changes nothing, neither
\* the State Stack, the current transform nor the surface (no Pop is
\* issued), and reports no error.
C3_RestoreOnEmptyIsNoOp ==
  [][(restored' # <<>> /\ stateStack = <<>>) =>
       /\ UNCHANGED <<stateStack, currentTransform, surface, phase, height>>
       /\ err' = "nil"]_vars

\* C3 witness: Restore has been called with no Save open, on a surface of
\* several layers and under a non-identity transform.
C3_Witness ==
  /\ WasRestore
  /\ ~restored[1].hit
  /\ stateStack = <<>>
  /\ phase = "active"
  /\ Len(surface) >= 2
  /\ currentTransform # recording_Identity


\* The state a successful Begin leaves.
AfterBegin ==
  /\ phase = "active"
  /\ err = "nil"
  /\ stateStack = <<>>
  /\ currentTransform = recording_Identity
  /\ surface = <<TransformLayer(flipTransform(height))>>

\* The Y-flip layers Begin and NewPage push, one for each canvas height.
IsFlip(layer) == \E h \in Heights : layer = TransformLayer(flipTransform(h))

\* Drawing-space points the visible transform is tried on.
Points == {<<0, 0>>, <<1, 0>>, <<0, 1>>, <<2, 1>>}

\* C4: when SetTransform(Identity) is the first call after Begin, the
\* transform visible in the engine is the flip composed with the identity:
\* a drawing-space point (x, y) lands at (x, height - y).
C4_IdentityKeepsFlip ==
  [][(AfterBegin /\ SetTransform(recording_Identity)) =>
       /\ Visible(surface') = Then(flipTransform(height), creator_Identity)
       /\ \A p \in Points :
            Apply(Visible(surface'), p[1], p[2]) = <<p[1], height - p[2]>>]_vars

\* C5: between Begin and End, whatever Save, Restore and SetTransform calls
\* are made, the flip layer Begin pushed is still the bottom layer of the
\* surface.
C5_FlipStaysAtBottom ==
  phase = "active" =>
    /\ surface # <<>>
    /\ IsFlip(surface[1])

\* C6: End removes the flip layer Begin pushed, and after End the surface
\* is as deep as it was before Begin pushed it (no layer is left), whatever
\* Save, Restore, SetTransform and SetClip calls came in between.
C6_EndRemovesTheFlip ==
  [][(phase = "active" /\ phase' = "ended") =>
       /\ surface # <<>>
       /\ IsFlip(Last(surface))
       /\ surface' = <<>>]_vars

\* C7: SetTransform(m) makes m the current transform whatever it was,
\* leaves the State Stack alone and leaves the surface as deep as it found
\* it (one Pop, then one Push).
C7_SetTransformIsAbsolute ==
  [][\A m \in Matrices :
       (phase = "active" /\ SetTransform(m)) =>
         /\ currentTransform' = m
         /\ stateStack' = stateStack
         /\ Len(surface') = Len(surface)]_vars

\* C8: between Begin and End the surface is one layer (the flip) deeper
\* than the State Stack: Save and a matching Restore move both depths
\* together, and SetTransform and SetClip move neither.
C8_DepthsInStep ==
  phase = "active" => Len(surface) = 1 + Len(stateStack)

\* C9: a clip layer stays where it is on the surface until a Restore
\* unwinds past the Save that preceded its SetClip; no other call between
\* Begin and End removes it, and with no such Save nothing does.  (A new
\* Begin starts a new page with a surface of its own.)
C9_ClipStaysUntilRestore ==
  [][(phase = "active" /\ phase' = "active"
        /\ ~(\E h \in Heights : Begin(h, TRUE))) =>
       \A i \in Clips(surface) :
         \/ i <= Len(surface') /\ surface'[i] = surface[i]
         \/ /\ restored' # <<>>
            /\ restored'[1].hit
            /\ stateStack # <<>>
            /\ \/ restored'[1].frame.scope = "mixed"
               \/ /\ restored'[1].frame.scope = "clip"
                  /\ i > Len(restored'[1].frame.surf)]_vars

\* C10: after Save, any number of SetClip calls and the matching Restore,
\* the surface is layer for layer the one the Save was called with, so the
\* clip layers in effect are exactly those in effect before the Save.
C10_RestoreBracketsClips ==
  (RestoreHit /\ restored[1].frame.scope \in {"pure", "clip"}) =>
    surface = restored[1].frame.surf

\* A call of one of the five drawing methods.
DrawingCall ==
  \/ FillPath
  \/ StrokePath
  \/ FillRect
  \/ DrawText
  \/ \E loaded, translucent, pushOk \in BOOLEAN : DrawImage(loaded, translucent, pushOk)

\* C11: FillPath, StrokePath, FillRect, DrawImage and DrawText report no
\* error, and whether the engine accepts or rejects what they hand it, they
\* leave the current transform, the State Stack and the depth of the
\* surface as they found them.
C11_DrawingKeepsState ==
  [][DrawingCall =>
       /\ err' = "nil"
       /\ currentTransform' = currentTransform
       /\ stateStack' = stateStack
       /\ Len(surface') = Len(surface)]_vars

\* C12: when WriteTo or SaveToFile hands the document to the engine, every
\* page in d.pages has had its flip layer popped by Finish exactly once, in
\* page order, whatever NewPage, Finish, WriteTo and SaveToFile calls came
\* before (Finish called again, pages added after a Finish).
C12_PagesPoppedOnceBeforeWrite ==
  [][((\E ok \in BOOLEAN : WriteTo(ok) \/ SaveToFile(ok)) /\ phase' # "crashed") =>
       doc'.popped = Upto(PageCountOf(doc'))]_vars

\* C13: every pageBackend in d.pages holds the Document's creator, as it
\* did when NewPage handed it out, whatever has been called on it through
\* the Backend interface since.
C13_PagesShareTheCreator ==
  /\ doc.listed => creator = "doc"
  /\ \A i \in 1..Len(doc.pages) : doc.pages[i].creator = "doc"

C15_PageFailureIsReported ==
  [][\A h \in Heights :
       (NewPage(h, FALSE) \/ Begin(h, FALSE)) => err' = "error"]_vars

\* The last call was of fn and has returned.
Returned(fn) == call.fn = fn /\ call.out # <<>>

\* C16: matrixToTransform maps the matrix [A B C; D E F] to the transform
\* with a = A, b = D, c = B, d = E, e = C, f = F, for every matrix with
\* entries in -MaxCoord..MaxCoord; the identity maps to (1, 0, 0, 1, 0, 0).
C16_MatrixFieldMapping ==
  Returned("matrixToTransform") =>
    LET m == call.arg
        t == call.out[1]
    IN /\ t.A = m.A /\ t.B = m.D /\ t.C = m.B
       /\ t.D = m.E /\ t.E = m.C /\ t.F = m.F
       /\ (m = recording_Identity =>
             <<t.A, t.B, t.C, t.D, t.E, t.F>> = <<1, 0, 0, 1, 0, 0>>)

\* C16 witness: a matrix whose B and D differ, and whose C and E differ,
\* has been converted.
C16_Witness ==
  /\ Returned("matrixToTransform")
  /\ call.arg.B # call.arg.D
  /\ call.arg.C # call.arg.E
  /\ call.out[1].B = call.arg.D
  /\ call.out[1].E = call.arg.C

\* The colour channel c (0..255) as the fill holds it: c / 255.
SameChannel(ratio, c) == ratio[1] * 255 = c * ratio[2]

\* C17: a sweep gradient brush with at least one stop gives a solid fill
\* with the red, green and blue of its first stop, whatever stops follow;
\* one with no stop gives solid black.
C17_SweepFallsBackToFirstStop ==
  (Returned("translateBrushToFill") /\ call.arg.kind = "SweepGradientBrush") =>
    LET fill == call.out[1]
        stops == call.arg.Stops
    IN /\ fill.paint = "solid"
       /\ fill.stops = <<>>
       /\ IF stops # <<>>
            THEN /\ SameChannel(fill.color.R, stops[1].Color.R)
                 /\ SameChannel(fill.color.G, stops[1].Color.G)
                 /\ SameChannel(fill.color.B, stops[1].Color.B)
            ELSE \A ch \in {fill.color.R, fill.color.G, fill.color.B} : ch[1] = 0

\* C17 witness: a sweep gradient of two stops of different colours has
\* been translated, and the fill has the first one's.
C17_Witness ==
  /\ Returned("translateBrushToFill")
  /\ call.arg.kind = "SweepGradientBrush"
  /\ Len(call.arg.Stops) = 2
  /\ call.arg.Stops[1].Color # call.arg.Stops[2].Color
  /\ call.out[1].color = ColorOf(call.arg.Stops[1].Color)

\* C18: the three enum translations answer for every value: a fill rule
\* maps to EvenOdd if it is EvenOdd and to NonZero otherwise; a line cap to
\* Round or Square if it is that and to Butt otherwise; a line join to
\* Round or Bevel if it is that and to Miter otherwise.
C18_EnumTranslations ==
  LET v == call.arg
      out == call.out[1]
  IN /\ Returned("translateFillRule") =>
          out = (IF v = "FillRuleEvenOdd" THEN "FillRuleEvenOdd" ELSE "FillRuleNonZero")
     /\ Returned("translateLineCap") =>
          out = (IF v \in {"LineCapRound", "LineCapSquare"} THEN v ELSE "LineCapButt")
     /\ Returned("translateLineJoin") =>
          out = (IF v \in {"LineJoinRound", "LineJoinBevel"} THEN v ELSE "LineJoinMiter")

\* C18 witness: a line cap that is none of the named ones has been
\* translated, to Butt.
C18_Witness ==
  /\ Returned("translateLineCap")
  /\ call.arg \notin {"LineCapButt", "LineCapRound", "LineCapSquare"}
  /\ call.out[1] = "LineCapButt"

\* C19: after every sequence of Begin, Save, Restore and SetTransform, the
\* transform the surface applies to the next drawing call (all its layers
\* composed) is the flip composed with the current transform, as if the
\* flip were kept apart from the saved and restored user transform.
C19_VisibleIsFlipThenCurrent ==
  phase = "active" =>
    \E h \in Heights :
      Visible(surface) = Then(flipTransform(h), matrixToTransform(currentTransform))

\* C20: DrawImage leaves on top of the surface the layer it found there,
\* at the same depth: it pops only an opacity layer it pushed itself, also
\* when PushOpacity or the image draw is rejected and when the image cannot
\* be encoded or loaded.
C20_DrawImageIsBalanced ==
  [][\A loaded, translucent, pushOk \in BOOLEAN :
       (surface # <<>> /\ DrawImage(loaded, translucent, pushOk)) =>
         /\ Len(surface') = Len(surface)
         /\ Last(surface') = Last(surface)]_vars

====
